---- MODULE Spec2Model ----
(***************************************************************************)
(* A model of redis-clone: the RESP codec, the command handlers over the   *)
(* two key-spaces (SETs, HSETs), processCommand, and the append-only file  *)
(* with its replay at startup.                                             *)
(*                                                                         *)
(* A Go string is a sequence of one-character strings; a RESP object is a  *)
(* record [Type, Value].  Time is counted in milliseconds.                 *)
(***************************************************************************)
EXTENDS Integers, Sequences, FiniteSets, TLC

\* ------------------------------------------------------------------ bounds
\* Aof.Write calls accepted since the file was created.
MaxLog == 2
\* Clock advances.
MaxTicks == 2

\* --------------------------------------------------------------- constants
\* time.Millisecond and time.Second, in the model's unit (one millisecond).
Millisecond == 1
Second == 1000
\* The zero time.Time (year 1): an instant far before any time.Now().
ZeroTime == -1000000

\* ----------------------------------------------------------------- strings
CR == "\r"
LF == "\n"
CRLF == <<CR, LF>>

Digits == <<"0", "1", "2", "3", "4", "5", "6", "7", "8", "9">>
LowerCase == <<"a", "b", "c", "d", "e", "f", "g", "h", "i", "j", "k", "l", "m",
               "n", "o", "p", "q", "r", "s", "t", "u", "v", "w", "x", "y", "z">>
UpperCase == <<"A", "B", "C", "D", "E", "F", "G", "H", "I", "J", "K", "L", "M",
               "N", "O", "P", "Q", "R", "S", "T", "U", "V", "W", "X", "Y", "Z">>

IsDigit(c) == \E i \in 1..10 : Digits[i] = c
DigitVal(c) == (CHOOSE i \in 1..10 : Digits[i] = c) - 1

\* strings.ToUpper, one character and a whole string.
UpperChar(c) ==
    IF \E i \in 1..26 : LowerCase[i] = c
    THEN UpperCase[CHOOSE i \in 1..26 : LowerCase[i] = c]
    ELSE c
ToUpper(s) == [i \in 1..Len(s) |-> UpperChar(s[i])]

HasPrefix(s, p) == Len(s) >= Len(p) /\ SubSeq(s, 1, Len(p)) = p
HasSuffix(s, p) == Len(s) >= Len(p) /\ SubSeq(s, Len(s) - Len(p) + 1, Len(s)) = p
TrimSuffix(s, p) == IF HasSuffix(s, p) THEN SubSeq(s, 1, Len(s) - Len(p)) ELSE s

\* strconv.Itoa.
RECURSIVE ItoaNat(_)
ItoaNat(n) == IF n < 10 THEN <<Digits[n + 1]>>
              ELSE ItoaNat(n \div 10) \o <<Digits[(n % 10) + 1]>>
Itoa(n) == IF n < 0 THEN <<"-">> \o ItoaNat(-n) ELSE ItoaNat(n)

\* strconv.ParseInt(s, 10, 64): an optional sign, then one or more digits.
RECURSIVE DigitsVal(_, _)
DigitsVal(s, acc) == IF s = <<>> THEN acc
                     ELSE DigitsVal(Tail(s), acc * 10 + DigitVal(Head(s)))
ParseInt(s) ==
    LET signed == s # <<>> /\ Head(s) \in {"+", "-"}
        body == IF signed THEN Tail(s) ELSE s
    IN IF body = <<>> \/ \E i \in 1..Len(body) : ~IsDigit(body[i])
       THEN [ok |-> FALSE, val |-> 0]
       ELSE [ok |-> TRUE,
             val |-> IF signed /\ Head(s) = "-" THEN -DigitsVal(body, 0)
                     ELSE DigitsVal(body, 0)]

\* ------------------------------------------------------------ RESP objects
Obj(t, v) == [Type |-> t, Value |-> v]
Bulk(s) == Obj("BulkString", s)
Arr(elems) == Obj("Array", elems)
NullObj == Obj("Null", <<>>)
ErrObj(msg) == Obj("Error", msg)
SimpleObj(s) == Obj("SimpleString", s)
\* The zero RESPObject{}.
ZeroObj == Obj("", <<>>)

\* ------------------------------------------------------------------- codec
\* Serialize and Deserialize are the codec that Aof and handleConnection call
\* (NewReader, Reader.Deserialize, RESPObject.Serialize).  The source at hand
\* does not hold them: they follow the protocol's description (marker byte,
\* CRLF-terminated lines, length-prefixed bulk strings and arrays, -1 for null).
NullBulk == Obj("NullBulkString", <<>>)
NullArray == Obj("NullArray", <<>>)

RECURSIVE Serialize(_)
RECURSIVE SerializeAll(_)
SerializeAll(elems) == IF elems = <<>> THEN <<>>
                       ELSE Serialize(Head(elems)) \o SerializeAll(Tail(elems))
Serialize(v) ==
    CASE v.Type = "SimpleString" -> <<"+">> \o v.Value \o CRLF
      [] v.Type = "Error" -> <<"-">> \o v.Value \o CRLF
      [] v.Type = "Integer" -> <<":">> \o Itoa(v.Value) \o CRLF
      [] v.Type = "BulkString" -> <<"$">> \o Itoa(Len(v.Value)) \o CRLF \o v.Value \o CRLF
      [] v.Type = "Array" -> <<"*">> \o Itoa(Len(v.Value)) \o CRLF \o SerializeAll(v.Value)
      [] v.Type = "NullArray" -> <<"*", "-", "1", CR, LF>>
      [] OTHER -> <<"$", "-", "1", CR, LF>>

\* A read from byte sequence b starting at index i gives [v, i, err]: the value,
\* the index of the next unread byte, and "nil", "EOF" (the stream ended) or
\* "protocol" (a malformed frame).
Got(v, i, err) == [v |-> v, i |-> i, err |-> err]

\* The index of the first CR LF pair of b at or after index j, 0 when none.
RECURSIVE IndexCRLF(_, _)
IndexCRLF(b, j) == IF j + 1 > Len(b) THEN 0
                   ELSE IF b[j] = CR /\ b[j + 1] = LF THEN j
                   ELSE IndexCRLF(b, j + 1)

\* One line, up to its CRLF at index c (0: the stream ends before one).
LineUpTo(b, i, c) ==
    IF c = 0 THEN Got(<<>>, Len(b) + 1, "EOF")
    ELSE Got(SubSeq(b, i, c - 1), c + 2, "nil")
ReadLine(b, i) == LineUpTo(b, i, IndexCRLF(b, i))

\* A line that holds a base-10 integer: p is what ParseInt makes of line l.
Parsed(p, i) == IF p.ok THEN Got(p.val, i, "nil") ELSE Got(0, i, "protocol")
IntegerIn(l) == IF l.err # "nil" THEN Got(0, l.i, l.err) ELSE Parsed(ParseInt(l.v), l.i)
ReadInteger(b, i) == IntegerIn(ReadLine(b, i))

\* A bulk string whose length line read as n: exactly that many bytes and two
\* more (the trailing CRLF, not validated); length -1 is the null bulk string.
BulkOfLength(b, n) ==
    IF n.err # "nil" THEN Got(NullBulk, n.i, n.err)
    ELSE IF n.v = -1 THEN Got(NullBulk, n.i, "nil")
    ELSE IF n.v < 0 THEN Got(NullBulk, n.i, "protocol")
    ELSE IF n.i + n.v + 1 > Len(b) THEN Got(NullBulk, Len(b) + 1, "EOF")
    ELSE Got(Bulk(SubSeq(b, n.i, n.i + n.v - 1)), n.i + n.v + 2, "nil")
ReadBulkString(b, i) == BulkOfLength(b, ReadInteger(b, i))

RECURSIVE Deserialize(_, _)
RECURSIVE ReadElements(_, _, _, _)
\* An array's elements: n more to read, acc read so far, e the one just read.
NextElement(b, n, acc, e) ==
    IF e.err # "nil" THEN Got(Arr(acc), e.i, e.err)
    ELSE ReadElements(b, e.i, n - 1, Append(acc, e.v))
ReadElements(b, i, n, acc) ==
    IF n <= 0 THEN Got(Arr(acc), i, "nil")
    ELSE NextElement(b, n, acc, Deserialize(b, i))
\* An array whose length line read as n; length -1 is the null array.
ArrayOfLength(b, n) ==
    IF n.err # "nil" THEN Got(NullArray, n.i, n.err)
    ELSE IF n.v = -1 THEN Got(NullArray, n.i, "nil")
    ELSE IF n.v < 0 THEN Got(NullArray, n.i, "protocol")
    ELSE ReadElements(b, n.i, n.v, <<>>)
ReadArray(b, i) == ArrayOfLength(b, ReadInteger(b, i))
SimpleOf(type, l) ==
    IF l.err # "nil" THEN Got(ZeroObj, l.i, l.err) ELSE Got(Obj(type, l.v), l.i, "nil")
ReadSimple(type, b, i) == SimpleOf(type, ReadLine(b, i))
IntOf(n) ==
    IF n.err # "nil" THEN Got(ZeroObj, n.i, n.err) ELSE Got(Obj("Integer", n.v), n.i, "nil")
ReadInt(b, i) == IntOf(ReadInteger(b, i))
Deserialize(b, i) ==
    IF i > Len(b) THEN Got(ZeroObj, i, "EOF")
    ELSE CASE b[i] = "+" -> ReadSimple("SimpleString", b, i + 1)
           [] b[i] = "-" -> ReadSimple("Error", b, i + 1)
           [] b[i] = ":" -> ReadInt(b, i + 1)
           [] b[i] = "$" -> ReadBulkString(b, i + 1)
           [] b[i] = "*" -> ReadArray(b, i + 1)
           [] OTHER -> Got(ZeroObj, i + 1, "protocol")

\* -------------------------------------------------------------- sync.Map
EmptyMap == <<>>
Has(m, k) == k \in DOMAIN m
Store(m, k, v) == [x \in (DOMAIN m) \cup {k} |-> IF x = k THEN v ELSE m[x]]
Delete(m, k) == [x \in (DOMAIN m) \ {k} |-> m[x]]
\* The orders in which Range may visit the keys of a map.
RangeOrders(m) ==
    LET n == Cardinality(DOMAIN m)
    IN {o \in [1..n -> DOMAIN m] : \A i, j \in 1..n : i # j => o[i] # o[j]}

\* ---------------------------------------------------------------- handlers
sSET == <<"S", "E", "T">>
sGET == <<"G", "E", "T">>
sHSET == <<"H", "S", "E", "T">>
sHGET == <<"H", "G", "E", "T">>
sKEYS == <<"K", "E", "Y", "S">>
sPING == <<"P", "I", "N", "G">>
sECHO == <<"E", "C", "H", "O">>
sCOMMAND == <<"C", "O", "M", "M", "A", "N", "D">>
sPONG == <<"P", "O", "N", "G">>
sOK == <<"O", "K">>
sPX == <<"P", "X">>
sEX == <<"E", "X">>

\* fmt.Sprintf(ErrWrongArgCount, name); a literal piece of a message is one token.
ErrWrongArgCount(name) ==
    <<"ERR wrong number of arguments for '">> \o name \o <<"' command">>
ErrInvalidInt == <<"ERR value is not an integer or out of range">>
ErrSyntax == <<"ERR syntax error">>
OK == SimpleObj(sOK)

\* x.Value.(string) succeeds on an object that carries a string.
IsString(o) == o.Type \in {"BulkString", "SimpleString", "Error"}
AllStrings(args, n) == \A i \in 1..n : IsString(args[i])
\* A failed type assertion: the goroutine panics and the process exits.
Panic == Obj("panic", <<>>)

\* The value stored under a string key.
Entry(data, expiresAt) == [Data |-> data, ExpiresAt |-> expiresAt]

\* A handler maps (args, engine, time) to its result and the engine after it.
Out(res, S, H) == [res |-> res, SETs |-> S, HSETs |-> H]

command(args, S, H) ==
    IF Len(args) # 1 THEN Out(ErrObj(ErrWrongArgCount(<<"c", "o", "m", "m", "a", "n", "d">>)), S, H)
    ELSE Out(SimpleObj(args[1].Value), S, H)

echo(args, S, H) ==
    IF Len(args) # 1 THEN Out(ErrObj(ErrWrongArgCount(<<"e", "c", "h", "o">>)), S, H)
    ELSE Out(SimpleObj(args[1].Value), S, H)

ping(args, S, H) ==
    CASE Len(args) = 0 -> Out(SimpleObj(sPONG), S, H)
      [] Len(args) = 1 -> Out(SimpleObj(args[1].Value), S, H)
      [] OTHER -> Out(ErrObj(ErrWrongArgCount(<<"p", "i", "n", "g">>)), S, H)

set(args, S, H, t) ==
    IF Len(args) < 2 \/ Len(args) > 4
    THEN Out(ErrObj(ErrWrongArgCount(<<"s", "e", "t">>)), S, H)
    ELSE IF ~AllStrings(args, 2) THEN Out(Panic, S, H)
    ELSE IF Len(args) = 4
    THEN IF ~(IsString(args[3]) /\ IsString(args[4])) THEN Out(Panic, S, H)
         ELSE LET cmd == ToUpper(args[3].Value)
                  duration == ParseInt(args[4].Value)
              IN IF ~duration.ok THEN Out(ErrObj(ErrInvalidInt), S, H)
                 ELSE CASE cmd = sPX ->
                             Out(OK, Store(S, args[1].Value,
                                 Entry(args[2].Value, t + duration.val * Millisecond)), H)
                        [] cmd = sEX ->
                             Out(OK, Store(S, args[1].Value,
                                 Entry(args[2].Value, t + duration.val * Second)), H)
                        [] OTHER -> Out(ErrObj(ErrSyntax), S, H)
    ELSE Out(OK, Store(S, args[1].Value, Entry(args[2].Value, ZeroTime)), H)

\* Variants of the expiry test: After in place of Before, and no IsZero test.
ExpiredAfter(value, t) == value.ExpiresAt # ZeroTime /\ value.ExpiresAt > t
ExpiredNoZeroCheck(value, t) == value.ExpiresAt < t

\* value.ExpiresAt is set and lies before time t.
Expired(value, t) == value.ExpiresAt # ZeroTime /\ value.ExpiresAt < t

get(args, S, H, t) ==
    IF Len(args) # 1 THEN Out(ErrObj(ErrWrongArgCount(<<"g", "e", "t">>)), S, H)
    ELSE IF ~IsString(args[1]) THEN Out(Panic, S, H)
    ELSE LET key == args[1].Value
         IN IF Has(S, key)
            THEN IF Expired(S[key], t) THEN Out(NullObj, Delete(S, key), H)
                 ELSE Out(Bulk(S[key].Data), S, H)
            ELSE Out(NullObj, S, H)

\* Variant of hm.Store: the hash's map is replaced by one holding only the new field.
StoreFieldFresh(H, hash, key, value) == Store(H, hash, Store(EmptyMap, key, value))

\* Variant of the get-or-create that stores a new map whether or not one is there.
LoadOrStoreFresh(H, hash) == Store(H, hash, EmptyMap)

\* HSETs.LoadOrStore(hash, &sync.Map{}): the hash's map, made empty when absent.
LoadOrStore(H, hash) == IF Has(H, hash) THEN H ELSE Store(H, hash, EmptyMap)
\* hm.Store(key, value) on the map held under hash.
StoreField(H, hash, key, value) == Store(H, hash, Store(H[hash], key, value))

hset(args, S, H) ==
    IF Len(args) # 3 THEN Out(ErrObj(ErrWrongArgCount(<<"h", "s", "e", "t">>)), S, H)
    ELSE IF ~AllStrings(args, 3) THEN Out(Panic, S, H)
    ELSE Out(OK, S, StoreField(LoadOrStore(H, args[1].Value),
                               args[1].Value, args[2].Value, args[3].Value))

hget(args, S, H) ==
    IF Len(args) # 2 THEN Out(ErrObj(ErrWrongArgCount(<<"h", "g", "e", "t">>)), S, H)
    ELSE IF ~AllStrings(args, 2) THEN Out(Panic, S, H)
    ELSE LET hash == args[1].Value
             key == args[2].Value
         IN IF Has(H, hash) /\ Has(H[hash], key) THEN Out(Bulk(H[hash][key]), S, H)
            ELSE Out(NullObj, S, H)

\* Variant of the Range callbacks without the HasPrefix test.
MatchingAll(order, prefix) == [i \in 1..Len(order) |-> Bulk(order[i])]

\* The keys Range visits, in order, that start with prefix, as bulk strings.
Matching(order, prefix) ==
    LET hit == SelectSeq(order, LAMBDA k : HasPrefix(k, prefix))
    IN [i \in 1..Len(hit) |-> Bulk(hit[i])]

\* ord.S and ord.H are the orders in which Range visits SETs and HSETs.
keys(args, S, H, ord) ==
    IF Len(args) # 1 THEN Out(ErrObj(ErrWrongArgCount(<<"k", "e", "y", "s">>)), S, H)
    ELSE IF ~IsString(args[1]) THEN Out(Panic, S, H)
    ELSE LET pattern == args[1].Value
         IN IF HasSuffix(pattern, <<"*">>)
            THEN LET prefix == TrimSuffix(pattern, <<"*">>)
                 IN Out(Arr(Matching(ord.S, prefix) \o Matching(ord.H, prefix)), S, H)
            ELSE IF Has(S, pattern) THEN Out(Arr(<<Bulk(pattern)>>), S, H)
            ELSE IF Has(H, pattern) THEN Out(Arr(<<Bulk(pattern)>>), S, H)
            ELSE Out(Arr(<<>>), S, H)

\* The registry: the names that have a handler.
Handlers == {sCOMMAND, sECHO, sPING, sSET, sGET, sHSET, sHGET, sKEYS}

\* Handlers[name](args) on engine (S, H) at time t.
Handle(name, args, S, H, t, ord) ==
    CASE name = sCOMMAND -> command(args, S, H)
      [] name = sECHO -> echo(args, S, H)
      [] name = sPING -> ping(args, S, H)
      [] name = sSET -> set(args, S, H, t)
      [] name = sGET -> get(args, S, H, t)
      [] name = sHSET -> hset(args, S, H)
      [] name = sHGET -> hget(args, S, H)
      [] name = sKEYS -> keys(args, S, H, ord)

\* --------------------------------------------------------------------- Aof
\* os.File.Write at offset p: the data replaces what lies there and extends the file.
FileWrite(f, p, data) ==
    [bytes |-> SubSeq(f, 1, p) \o data \o SubSeq(f, p + Len(data) + 1, Len(f)),
     pos |-> p + Len(data)]

\* Variant of Aof.Write that writes at the start of the file.
AofWriteAtStart(f, p, obj) == FileWrite(f, 0, Serialize(obj))

\* Aof.Write: the object's serialization, written at the file's offset.
AofWrite(f, p, obj) == FileWrite(f, p, Serialize(obj))

\* Aof.Read's loop from index i: the values decoded before the first error;
\* r is the value the loop has just read.
RECURSIVE ReadFrom(_, _, _)
ReadNext(b, acc, r) ==
    IF r.err # "nil" THEN [values |-> acc, err |-> r.err, i |-> r.i]
    ELSE ReadFrom(b, r.i, Append(acc, r.v))
ReadFrom(b, i, acc) == ReadNext(b, acc, Deserialize(b, i))

\* Aof.Read: seek to the start, decode value after value and hand each to fn;
\* io.EOF ends the loop without an error, any other error is returned.
ReadResult(r) ==
    [values |-> r.values, err |-> IF r.err = "EOF" THEN "nil" ELSE r.err,
     consumed |-> r.i - 1]
AofRead(f) == ReadResult(ReadFrom(f, 1, <<>>))

\* The file offsets Aof.Read may leave behind.  Reading to the end of the file
\* leaves the offset there; a reader that stops at a decode error has consumed
\* the bytes decoded so far and may have read ahead of them.
OffsetsAfter(r, size) == IF r.err = "nil" THEN {size} ELSE r.consumed..size
OffsetsAfterRead(f) == OffsetsAfter(AofRead(f), Len(f))

\* ---------------------------------------------------------- processCommand
IsCommandFrame(o) == o.Type = "Array" /\ Len(o.Value) > 0 /\ IsString(o.Value[1])
\* Variant of the command lookup without strings.ToUpper.
CommandOfRaw(o) == o.Value[1].Value
CommandOf(o) == ToUpper(o.Value[1].Value)
ArgsOf(o) == Tail(o.Value)
\* The frame is one processCommand hands to aof.Write.
IsLogged(o) == IsCommandFrame(o) /\ CommandOf(o) \in {sSET, sHSET}

Done(res, S, H, f, p) == [res |-> res, SETs |-> S, HSETs |-> H, file |-> f, pos |-> p]

processCommand(respObject, S, H, f, p, t, ord) ==
    IF respObject.Type # "Array"
    THEN Done(ErrObj(<<"Invalid request, expected array">>), S, H, f, p)
    ELSE IF Len(respObject.Value) = 0
    THEN Done(ErrObj(<<"Invalid request, expected array length > 0">>), S, H, f, p)
    ELSE IF ~IsString(respObject.Value[1]) THEN Done(Panic, S, H, f, p)
    ELSE LET cmd == CommandOf(respObject)
             args == ArgsOf(respObject)
         IN IF cmd \notin Handlers
            THEN Done(ErrObj(<<"Invalid command: ">> \o cmd), S, H, f, p)
            ELSE LET w == IF cmd = sSET \/ cmd = sHSET THEN AofWrite(f, p, respObject)
                          ELSE [bytes |-> f, pos |-> p]
                     h == Handle(cmd, args, S, H, t, ord)
                 IN Done(h.res, h.SETs, h.HSETs, w.bytes, w.pos)

\* ----------------------------------------------------- rebuildCacheFromAOF
\* Range's order plays no part in replay: only SET and HSET are in the log.
NoOrder == [S |-> <<>>, H |-> <<>>]

\* The callback of rebuildCacheFromAOF applied to each value in turn.
RECURSIVE Replay(_, _, _, _)
Replay(values, S, H, t) ==
    IF values = <<>> THEN [SETs |-> S, HSETs |-> H, panic |-> FALSE]
    ELSE LET v == Head(values)
         IN IF ~IsCommandFrame(v) THEN [SETs |-> S, HSETs |-> H, panic |-> TRUE]
            ELSE IF CommandOf(v) \notin Handlers THEN Replay(Tail(values), S, H, t)
            ELSE LET h == Handle(CommandOf(v), ArgsOf(v), S, H, t, NoOrder)
                 IN IF h.res = Panic THEN [SETs |-> S, HSETs |-> H, panic |-> TRUE]
                    ELSE Replay(Tail(values), h.SETs, h.HSETs, t)

\* rebuildCacheFromAOF on a fresh engine at time t: every decoded value is
\* applied; a decode error is logged and startup goes on.
rebuildCacheFromAOF(f, t) == Replay(AofRead(f).values, EmptyMap, EmptyMap, t)

\* ------------------------------------------------------------------ resp.go
\* resp.go's Value and its codec: Value.Marshal and Resp.Read.
Value(typ, str, num, bulk, array) ==
    [typ |-> typ, str |-> str, num |-> num, bulk |-> bulk, array |-> array]
ZeroValue == Value("", <<>>, 0, <<>>, <<>>)

marshalString(v) == <<"+">> \o v.str \o CRLF
marshalError(v) == <<"-">> \o v.str \o CRLF
marshalNull == <<"$", "-", "1", CR, LF>>
marshalBulk(v) == <<"$">> \o Itoa(Len(v.bulk)) \o CRLF \o v.bulk \o CRLF

RECURSIVE Marshal(_)
RECURSIVE MarshalAll(_)
\* marshalArray's loop over v.array.
MarshalAll(elems) == IF elems = <<>> THEN <<>>
                     ELSE Marshal(Head(elems)) \o MarshalAll(Tail(elems))
marshalArray(v) == <<"*">> \o Itoa(Len(v.array)) \o CRLF \o MarshalAll(v.array)
Marshal(v) ==
    CASE v.typ = "array" -> marshalArray(v)
      [] v.typ = "bulk" -> marshalBulk(v)
      [] v.typ = "string" -> marshalString(v)
      [] v.typ = "null" -> marshalNull
      [] v.typ = "error" -> marshalError(v)
      [] OTHER -> <<>>

\* The index of the first '\r' of b at or after index j, 0 when there is none.
RECURSIVE IndexCR(_, _)
IndexCR(b, j) == IF j > Len(b) THEN 0
                 ELSE IF b[j] = CR THEN j
                 ELSE IndexCR(b, j + 1)

\* readLine: bytes are read up to and including the one that follows the first
\* '\r' (at index c); the line is what was read less its last two bytes.
lineUpTo(b, i, c) ==
    IF c = 0 \/ c + 1 > Len(b) THEN Got(<<>>, Len(b) + 1, "EOF")
    ELSE Got(SubSeq(b, i, c - 1), c + 2, "nil")
readLine(b, i) == lineUpTo(b, i, IndexCR(b, i))

\* readInteger: the line, parsed by strconv.ParseInt.
parsedAs(p, i) == IF p.ok THEN Got(p.val, i, "nil") ELSE Got(0, i, "parse")
integerIn(l) == IF l.err # "nil" THEN Got(0, l.i, l.err) ELSE parsedAs(ParseInt(l.v), l.i)
readInteger(b, i) == integerIn(readLine(b, i))

\* readBulk after its length n: make([]byte, n) panics on a negative n;
\* reader.Read fills the slice with the bytes there are (the slice keeps its
\* zero bytes past them: the count and error of Read are not looked at); one
\* more line is read and dropped, its error too.
ZeroBytes(k) == [j \in 1..k |-> "0x00"]
Available(b, i, n) == IF i + n - 1 > Len(b) THEN Len(b) - i + 1 ELSE n
bulkOfLength(b, n) ==
    IF n.err # "nil" THEN Got(Value("bulk", <<>>, 0, <<>>, <<>>), n.i, n.err)
    ELSE IF n.v < 0 THEN Got(ZeroValue, n.i, "panic")
    ELSE Got(Value("bulk", <<>>, 0,
                   SubSeq(b, n.i, n.i + Available(b, n.i, n.v) - 1)
                       \o ZeroBytes(n.v - Available(b, n.i, n.v)),
                   <<>>),
             readLine(b, n.i + Available(b, n.i, n.v)).i, "nil")
readBulk(b, i) == bulkOfLength(b, readInteger(b, i))

RECURSIVE Read(_, _)
RECURSIVE readElems(_, _, _, _)
\* readArray's loop: n more elements to read, acc read so far, e the one just read.
nextElem(b, n, acc, e) ==
    IF e.err # "nil" THEN Got(Value("array", <<>>, 0, <<>>, acc), e.i, e.err)
    ELSE readElems(b, e.i, n - 1, Append(acc, e.v))
readElems(b, i, n, acc) ==
    IF n <= 0 THEN Got(Value("array", <<>>, 0, <<>>, acc), i, "nil")
    ELSE nextElem(b, n, acc, Read(b, i))
arrayOfLength(b, n) ==
    IF n.err # "nil" THEN Got(Value("array", <<>>, 0, <<>>, <<>>), n.i, n.err)
    ELSE readElems(b, n.i, n.v, <<>>)
readArray(b, i) == arrayOfLength(b, readInteger(b, i))
\* Read: the type byte, then the array or the bulk string; any other type
\* byte is printed and answered with the zero Value and no error.
Read(b, i) ==
    IF i > Len(b) THEN Got(ZeroValue, i, "EOF")
    ELSE CASE b[i] = "*" -> readArray(b, i + 1)
           [] b[i] = "$" -> readBulk(b, i + 1)
           [] OTHER -> Got(ZeroValue, i + 1, "nil")

\* ------------------------------------------------------------------- state
VARIABLES
    SETs,     \* the string key-space: key -> [Data, ExpiresAt]
    HSETs,    \* the hash key-space: hash name -> (field -> value)
    file,     \* the bytes of redis.aof
    pos,      \* the offset of the open file handle
    now,      \* time.Now()
    writes,   \* Aof.Write calls since the file was created
    last,     \* the request processed last and the result written back
    hist,     \* history: per key and per hash field, the last accepted write
    pc,       \* per connection: where its processCommand stands
    creq,     \* per connection: the frame it is processing
    cres,     \* per connection: the result it wrote back last
    phase,    \* the process: "down", "opened" (NewAof returned), "serving", "crashed"
    bootErr,  \* the error Aof.Read returned to rebuildCacheFromAOF at startup
    aof,      \* the Aof besides its file: handle, mutex, context, flush task
    wire      \* a Value on its way through resp.go: marshalled, then read back

vars == <<SETs, HSETs, file, pos, now, writes, last, hist, pc, creq, cres,
          phase, bootErr, aof, wire>>
sys == <<phase, bootErr, aof>>
engine == <<SETs, HSETs, file, pos>>
conns == <<pc, creq, cres, wire>>

\* ---------------------------------------------------------------- requests
Cmd(words) == Arr([i \in 1..Len(words) |-> Bulk(words[i])])

ka == <<"a">>
kab == <<"a", "b">>
kb == <<"b">>
kh == <<"h">>
ff == <<"f">>
fg == <<"g">>
v1 == <<"1">>
v2 == <<"2">>
v3 == <<"3">>
sFOO == <<"f", "o", "o">>
star == <<"*">>

\* Requests on a string key with and without expiration, on a key never set,
\* and on a hash that shares the string key's name.
TimedRequests == {
    Cmd(<<sSET, ka, v1>>),
    Cmd(<<sSET, ka, v2, sPX, v1>>),
    Cmd(<<<<"s", "e", "t">>, ka, v3, <<"e", "x">>, v1>>),
    Cmd(<<sHSET, ka, ff, v1>>),
    Cmd(<<sGET, ka>>),
    Cmd(<<sGET, kb>>),
    Cmd(<<sKEYS, ka>>) }

\* Requests of every arity, with unknown names and malformed shapes.
DispatchRequests == {
    Cmd(<<sSET, ka, v1>>),
    Cmd(<<<<"s", "e", "t">>, ka, v2>>),
    Cmd(<<sSET>>),
    Cmd(<<sSET, ka, v2, sEX>>),
    Cmd(<<sSET, ka, v2, sEX, <<"x">>>>),
    Cmd(<<sSET, ka, v2, <<"X", "X">>, v1>>),
    Cmd(<<sHSET, kh, ff>>),
    Cmd(<<<<"h", "s", "e", "t">>, kh, ff, v1>>),
    Cmd(<<sGET, ka>>),
    Cmd(<<sGET>>),
    Cmd(<<sHGET, kh>>),
    Cmd(<<sKEYS>>),
    Cmd(<<sPING>>),
    Cmd(<<sPING, v1>>),
    Cmd(<<sPING, v1, v2>>),
    Cmd(<<sECHO, v1>>),
    Cmd(<<sECHO>>),
    Cmd(<<sCOMMAND, v1>>),
    Cmd(<<sFOO, ka, v1>>),
    Cmd(<<<<"S", "E", "T", "X">>, ka, v1>>),
    Cmd(<<>>),
    Bulk(sPING) }

\* Requests on hashes and on the names of both key-spaces.
HashRequests == {
    Cmd(<<sHSET, kh, ff, v1>>),
    Cmd(<<sHSET, kh, ff, v2>>),
    Cmd(<<sHSET, kh, fg, v1>>),
    Cmd(<<sHSET, ka, ff, v1>>),
    Cmd(<<sSET, ka, v1>>),
    Cmd(<<sSET, kab, v1>>),
    Cmd(<<sHGET, kh, ff>>),
    Cmd(<<sHGET, kh, fg>>),
    Cmd(<<sHGET, ka, ff>>),
    Cmd(<<sHGET, kab, ff>>),
    Cmd(<<sKEYS, ka \o star>>),
    Cmd(<<sKEYS, kab \o star>>),
    Cmd(<<sKEYS, star>>),
    Cmd(<<sKEYS, ka>>),
    Cmd(<<sKEYS, kh>>),
    Cmd(<<sKEYS, kab>>) }

Requests == TimedRequests \cup DispatchRequests \cup HashRequests

\* The names the requests use, for stating properties.
Keys == {ka, kab, kb, kh}
Fields == {ff, fg}

\* ----------------------------------------------------------------- history
\* last: the request processed last and its result.
NoRequest == [req |-> ZeroObj, res |-> ZeroObj]

\* hist, for the current run of the server:
\*   set[k]      the value and the expiration instant asked for by the latest
\*               SET k that returned OK (ZeroTime: no expiration asked for);
\*   hset[<<h, f>>]  the value of the latest HSET h f that returned OK;
\*   got[k]      the time of the latest GET k since the latest such SET k, kept
\*               when that SET asked for an expiration.
NoHistory == [set |-> EmptyMap, hset |-> EmptyMap, got |-> EmptyMap]

\* The expiration instant a SET asks for: now + n seconds (EX) or milliseconds
\* (PX) when it has the four-argument form, none otherwise.
AskedExpiry(args, t) ==
    IF Len(args) = 4
    THEN t + ParseInt(args[4].Value).val *
             (IF ToUpper(args[3].Value) = sEX THEN 1000 ELSE 1)
    ELSE ZeroTime

IsGet(r) ==
    /\ IsCommandFrame(r)
    /\ CommandOf(r) = sGET
    /\ Len(ArgsOf(r)) = 1
    /\ IsString(ArgsOf(r)[1])

\* The history after request r was answered res at time t.
Record(h, r, res, t) ==
    IF IsGet(r)
    THEN LET k == ArgsOf(r)[1].Value
         IN IF Has(h.set, k) /\ h.set[k].ExpiresAt # ZeroTime
            THEN [h EXCEPT !.got = Store(h.got, k, t)]
            ELSE h
    ELSE IF ~(IsLogged(r) /\ res = OK) THEN h
    ELSE LET args == ArgsOf(r)
         IN IF CommandOf(r) = sSET
            THEN [h EXCEPT !.set = Store(h.set, args[1].Value,
                                         Entry(args[2].Value, AskedExpiry(args, t))),
                           !.got = Delete(h.got, args[1].Value)]
            ELSE [h EXCEPT !.hset = Store(h.hset, <<args[1].Value, args[2].Value>>,
                                          args[3].Value)]

\* The history of a run that starts by replaying values at time t.
RECURSIVE Replayed(_, _, _)
Replayed(values, h, t) ==
    IF values = <<>> THEN h
    ELSE LET v == Head(values)
         IN IF ~IsLogged(v) THEN Replayed(Tail(values), h, t)
            ELSE Replayed(Tail(values),
                          Record(h, v, Handle(CommandOf(v), ArgsOf(v), EmptyMap,
                                              EmptyMap, t, NoOrder).res, t), t)

\* ------------------------------------------------------------------ actions
Conns == {1, 2}

\* Nothing is on its way through resp.go.
NoWire == [stage |-> "none", v |-> ZeroValue, bytes |-> <<>>, got |-> ZeroValue, err |-> "nil"]

\* Who holds aof.mu: nobody, a connection's goroutine (its number),
\* periodicSync, or the caller of Close.
Free == 0
Flusher == 3
Closer == 4

\* NewAof(path, false): the handle is open, the mutex free, the context live
\* and periodicSync started, waiting in its select.  sent[c] counts the bytes
\* the Write of connection c has handed to the file so far; order lists the
\* objects whose Write has taken the mutex, in that order; synced is the
\* length of the file at the latest file.Sync().
NewAof == [handle |-> "open", mu |-> Free, cancelled |-> FALSE, flusher |-> "select",
           closer |-> "idle", sent |-> [c \in Conns |-> 0], order |-> <<>>,
           synced |-> 0]

Init ==
    /\ SETs = EmptyMap
    /\ HSETs = EmptyMap
    /\ file = <<>>
    /\ pos = 0
    /\ now = 0
    /\ writes = 0
    /\ last = NoRequest
    /\ hist = NoHistory
    /\ pc = [c \in Conns |-> "idle"]
    /\ creq = [c \in Conns |-> ZeroObj]
    /\ cres = [c \in Conns |-> ZeroObj]
    /\ phase = "serving"
    /\ bootErr = "nil"
    /\ aof = NewAof
    /\ wire = NoWire

\* One request on a connection, from the decoded frame to the result written
\* back: handleConnection's loop body with processCommand.
Process(r, ord) ==
    /\ phase = "serving"
    /\ IsLogged(r) => writes < MaxLog
    /\ LET d == processCommand(r, SETs, HSETs, file, pos, now, ord)
       IN /\ phase' = IF d.res = Panic THEN "crashed" ELSE "serving"
          /\ SETs' = d.SETs
          /\ HSETs' = d.HSETs
          /\ file' = d.file
          /\ pos' = d.pos
          /\ last' = [req |-> r, res |-> d.res]
          /\ hist' = Record(hist, r, d.res, now)
    /\ writes' = IF IsLogged(r) THEN writes + 1 ELSE writes
    /\ UNCHANGED <<now, conns, bootErr, aof>>

\* The orders Range may take while r is handled: they matter to KEYS alone.
Orders(r) ==
    IF IsCommandFrame(r) /\ CommandOf(r) = sKEYS
    THEN {[S |-> oS, H |-> oH] : oS \in RangeOrders(SETs), oH \in RangeOrders(HSETs)}
    ELSE {NoOrder}

RequestOf(U) == \E r \in U : \E ord \in Orders(r) : Process(r, ord)

Request == RequestOf(TimedRequests)
DispatchRequest == RequestOf(DispatchRequests)
HashRequest == RequestOf(HashRequests)

\* Time passes: one millisecond or one second.
TickSteps == {Millisecond, Second}
Ticks(t) == (t \div Second) + (t % Second)
Tick ==
    /\ Ticks(now) < MaxTicks
    /\ \E d \in TickSteps : now' = now + d
    /\ UNCHANGED <<engine, writes, last, hist, conns, sys>>

\* The server stops (Aof.Close) and starts again: NewAof opens the file at
\* offset 0 and rebuildCacheFromAOF replays it into the empty key-spaces.
Restart ==
    /\ LET rebuilt == rebuildCacheFromAOF(file, now)
       IN /\ phase' = IF rebuilt.panic THEN "crashed" ELSE "serving"
          /\ SETs' = rebuilt.SETs
          /\ HSETs' = rebuilt.HSETs
    /\ pos' \in OffsetsAfterRead(file)
    /\ last' = NoRequest
    /\ hist' = Replayed(AofRead(file).values, NoHistory, now)
    /\ bootErr' = AofRead(file).err
    /\ aof' = NewAof
    /\ UNCHANGED <<file, now, writes, conns>>

Next == Request \/ Tick \/ Restart
Spec == Init /\ [][Next]_vars

NextDispatch == DispatchRequest \/ Restart
SpecDispatch == Init /\ [][NextDispatch]_vars

NextHash == HashRequest \/ Restart
SpecHash == Init /\ [][NextHash]_vars

\* ------------------------------------------------------------- connections
\* Each connection runs handleConnection in a goroutine of its own; the steps
\* of processCommand on different connections interleave.  A step is one
\* operation on shared state: the append under the Aof's lock, one sync.Map call.
ConcRequests == {
    Cmd(<<sSET, ka, v1>>),
    Cmd(<<sSET, ka, v2>>),
    Cmd(<<sHSET, kh, ff, v1>>),
    Cmd(<<sHSET, kh, ff, v2>>) }

\* Appends accepted and not yet written.
Pending == Cardinality({c \in Conns : pc[c] = "log"})

\* The frame is decoded, validated and its handler looked up (main.go:66-81).
CReceive(c) ==
    /\ pc[c] = "idle"
    /\ writes + Pending < MaxLog
    /\ \E r \in ConcRequests :
        /\ creq' = [creq EXCEPT ![c] = r]
        /\ pc' = [pc EXCEPT ![c] = IF IsLogged(r) THEN "log" ELSE "exec"]
    /\ UNCHANGED <<engine, now, writes, last, hist, cres, sys, wire>>

\* aof.Write(respObject), under the Aof's mutex.
CLog(c) ==
    /\ pc[c] = "log"
    /\ LET w == AofWrite(file, pos, creq[c])
       IN file' = w.bytes /\ pos' = w.pos
    /\ writes' = writes + 1
    /\ pc' = [pc EXCEPT ![c] = "exec"]
    /\ UNCHANGED <<SETs, HSETs, now, last, hist, creq, cres, sys, wire>>

\* handler(args): set in one step (a single Store); hset up to its LoadOrStore.
CExec(c) ==
    /\ pc[c] = "exec"
    /\ LET cmd == CommandOf(creq[c])
           args == ArgsOf(creq[c])
       IN IF cmd = sHSET /\ Len(args) = 3
          THEN /\ HSETs' = LoadOrStore(HSETs, args[1].Value)
               /\ pc' = [pc EXCEPT ![c] = "store"]
               /\ UNCHANGED <<SETs, cres>>
          ELSE LET h == Handle(cmd, args, SETs, HSETs, now, NoOrder)
               IN /\ SETs' = h.SETs
                  /\ HSETs' = h.HSETs
                  /\ cres' = [cres EXCEPT ![c] = h.res]
                  /\ pc' = [pc EXCEPT ![c] = "idle"]
    /\ UNCHANGED <<file, pos, now, writes, last, hist, creq, sys, wire>>

\* hset's hm.Store(key, value) on the map LoadOrStore returned.
CStore(c) ==
    /\ pc[c] = "store"
    /\ LET args == ArgsOf(creq[c])
       IN HSETs' = StoreField(HSETs, args[1].Value, args[2].Value, args[3].Value)
    /\ cres' = [cres EXCEPT ![c] = OK]
    /\ pc' = [pc EXCEPT ![c] = "idle"]
    /\ UNCHANGED <<SETs, file, pos, now, writes, last, hist, creq, sys, wire>>

Receive == \E c \in Conns : CReceive(c)
Log == \E c \in Conns : CLog(c)
Exec == \E c \in Conns : CExec(c)
StoreStep == \E c \in Conns : CStore(c)

NextConc == Receive \/ Log \/ Exec \/ StoreStep
SpecConc == Init /\ [][NextConc]_vars

\* ------------------------------------------------------- appends in steps
\* Aof.Write step by step: mu.Lock, the write(2) calls of file.Write, and the
\* deferred mu.Unlock; periodicSync runs beside the connections.

\* Variant of the mutex that never makes a goroutine wait.
UnlockedAlways(a) == TRUE

\* aof.mu.Lock() can proceed.
Unlocked(a) == a.mu = Free

\* The numbers of bytes one write(2) call may take of the rest bytes left:
\* all of them, or, on the first call, only half.
Accepted(rest, sent) == IF sent = 0 /\ rest > 1 THEN {rest \div 2, rest} ELSE {rest}

\* aof.mu.Lock() in Write.
ALock(c) ==
    /\ pc[c] = "log"
    /\ Unlocked(aof)
    /\ aof' = [aof EXCEPT !.mu = c, !.sent[c] = 0, !.order = Append(@, creq[c])]
    /\ pc' = [pc EXCEPT ![c] = "write"]
    /\ UNCHANGED <<engine, now, writes, last, hist, creq, cres, phase, bootErr, wire>>

\* aof.file.Write(data): one write(2) call at the file's offset.
AWrite(c) ==
    /\ pc[c] = "write"
    /\ aof.handle = "open"
    /\ aof.sent[c] < Len(Serialize(creq[c]))
    /\ \E n \in Accepted(Len(Serialize(creq[c])) - aof.sent[c], aof.sent[c]) :
        /\ file' = FileWrite(file, pos,
                             SubSeq(Serialize(creq[c]), aof.sent[c] + 1, aof.sent[c] + n)).bytes
        /\ pos' = pos + n
        /\ aof' = [aof EXCEPT !.sent[c] = @ + n]
    /\ UNCHANGED <<SETs, HSETs, now, writes, last, hist, conns, phase, bootErr>>

\* Write returns nil: the deferred mu.Unlock(); processCommand goes on to the handler.
AReturn(c) ==
    /\ pc[c] = "write"
    /\ aof.sent[c] = Len(Serialize(creq[c]))
    /\ aof' = [aof EXCEPT !.mu = Free]
    /\ writes' = writes + 1
    /\ pc' = [pc EXCEPT ![c] = "exec"]
    /\ UNCHANGED <<engine, now, last, hist, creq, cres, phase, bootErr, wire>>

\* periodicSync's select takes a tick of its ticker.
FTick ==
    /\ aof.flusher = "select"
    /\ aof' = [aof EXCEPT !.flusher = "lock"]
    /\ UNCHANGED <<engine, now, writes, last, hist, conns, phase, bootErr>>

\* aof.mu.Lock() in sync.
FLock ==
    /\ aof.flusher = "lock"
    /\ Unlocked(aof)
    /\ aof' = [aof EXCEPT !.flusher = "sync", !.mu = Flusher]
    /\ UNCHANGED <<engine, now, writes, last, hist, conns, phase, bootErr>>

\* aof.file.Sync() and the deferred mu.Unlock(); back to the select.
FSync ==
    /\ aof.flusher = "sync"
    /\ aof' = [aof EXCEPT !.flusher = "select", !.mu = Free,
                           !.synced = IF aof.handle = "open" THEN Len(file) ELSE @]
    /\ UNCHANGED <<engine, now, writes, last, hist, conns, phase, bootErr>>

LockStep == \E c \in Conns : ALock(c)
WriteStep == \E c \in Conns : AWrite(c)
ReturnStep == \E c \in Conns : AReturn(c)

NextAppend ==
    Receive \/ LockStep \/ WriteStep \/ ReturnStep \/ Exec \/ StoreStep
        \/ FTick \/ FLock \/ FSync
SpecAppend == Init /\ [][NextAppend]_vars

\* -------------------------------------------------------------------- Close
\* The Aof with a caller of Close beside the connections and periodicSync.
CloseRequests == {Cmd(<<sSET, ka, v1>>), Cmd(<<sHSET, kh, ff, v1>>)}

KReceive(c) ==
    /\ pc[c] = "idle"
    /\ writes + Pending < MaxLog
    /\ \E r \in CloseRequests :
        /\ creq' = [creq EXCEPT ![c] = r]
        /\ pc' = [pc EXCEPT ![c] = "log"]
    /\ UNCHANGED <<engine, now, writes, last, hist, cres, sys, wire>>

\* aof.file.Write(data) on the closed file returns an error; Write returns it,
\* after the deferred mu.Unlock(); processCommand logs it and calls the handler.
AFail(c) ==
    /\ pc[c] = "write"
    /\ aof.handle = "closed"
    /\ aof' = [aof EXCEPT !.mu = Free]
    /\ writes' = writes + 1
    /\ pc' = [pc EXCEPT ![c] = "exec"]
    /\ UNCHANGED <<engine, now, last, hist, creq, cres, phase, bootErr, wire>>

\* periodicSync's select takes ctx.Done(): the goroutine returns.
FStop ==
    /\ aof.flusher = "select"
    /\ aof.cancelled
    /\ aof' = [aof EXCEPT !.flusher = "done"]
    /\ UNCHANGED <<engine, now, writes, last, hist, conns, phase, bootErr>>

\* Close is called: aof.cancel().
CloseCall ==
    /\ aof.closer = "idle"
    /\ aof' = [aof EXCEPT !.closer = "lock", !.cancelled = TRUE]
    /\ UNCHANGED <<engine, now, writes, last, hist, conns, phase, bootErr>>

\* aof.mu.Lock() in Close.
CloseLock ==
    /\ aof.closer = "lock"
    /\ Unlocked(aof)
    /\ aof' = [aof EXCEPT !.closer = "sync", !.mu = Closer]
    /\ UNCHANGED <<engine, now, writes, last, hist, conns, phase, bootErr>>

\* The Aof after Close's aof.file.Sync() returned: with an error Close returns
\* it, otherwise Close returns what aof.file.Close() returns; the deferred
\* mu.Unlock() in both cases.
Closed(a, size, synced) ==
    IF synced
    THEN [a EXCEPT !.closer = "done", !.mu = Free, !.handle = "closed", !.synced = size]
    ELSE [a EXCEPT !.closer = "failed", !.mu = Free]

\* The rest of Close; the final Sync succeeds or fails.
CloseSync ==
    /\ aof.closer = "sync"
    /\ \E synced \in BOOLEAN : aof' = Closed(aof, Len(file), synced)
    /\ UNCHANGED <<engine, now, writes, last, hist, conns, phase, bootErr>>

ReceiveOpen == \E c \in Conns : KReceive(c)
FailStep == \E c \in Conns : AFail(c)

NextClose ==
    ReceiveOpen \/ LockStep \/ WriteStep \/ FailStep \/ ReturnStep \/ Exec \/ StoreStep
        \/ FTick \/ FLock \/ FSync \/ FStop \/ CloseCall \/ CloseLock \/ CloseSync
SpecClose == Init /\ [][NextClose]_vars

\* ------------------------------------------------------- fields of a hash
\* Connections that set different fields of hashes that do not exist yet.
FieldRequests == {
    Cmd(<<sHSET, kh, ff, v1>>),
    Cmd(<<sHSET, kh, fg, v2>>),
    Cmd(<<sHSET, ka, fg, v1>>),
    Cmd(<<sHGET, kh, ff>>) }

HReceive(c) ==
    /\ pc[c] = "idle"
    /\ \E r \in FieldRequests :
        /\ IsLogged(r) => writes + Pending < MaxLog
        /\ creq' = [creq EXCEPT ![c] = r]
        /\ pc' = [pc EXCEPT ![c] = IF IsLogged(r) THEN "log" ELSE "exec"]
    /\ UNCHANGED <<engine, now, writes, last, hist, cres, sys, wire>>

ReceiveField == \E c \in Conns : HReceive(c)

NextFields == ReceiveField \/ Log \/ Exec \/ StoreStep
SpecFields == Init /\ [][NextFields]_vars

\* ----------------------------------------------------------- failed appends
\* Requests whose append to the log may fail: the disk is full, the write
\* gets an I/O error.
FailRequests == {
    Cmd(<<sSET, ka, v1>>),
    Cmd(<<sSET, ka, v2>>),
    Cmd(<<sHSET, kh, ff, v1>>),
    Cmd(<<sSET, ka>>),
    Cmd(<<sGET, ka>>),
    Cmd(<<sHGET, kh, ff>>) }

\* The numbers of bytes a file.Write that fails may have written of len bytes.
Partial(len) == {0, len \div 2}

\* Variant of processCommand that answers the error of aof.Write and does not
\* call the handler.
processCommandAbortOnError(respObject, S, H, f, p, t, ord, n) ==
    Done(ErrObj(<<"failed to write to AOF">>), S, H,
         FileWrite(f, p, SubSeq(Serialize(respObject), 1, n)).bytes, p + n)

\* processCommand on a SET or HSET whose aof.Write returns an error after
\* file.Write has written n bytes: the error is logged and the handler called.
processCommandOnError(respObject, S, H, f, p, t, ord, n) ==
    LET h == Handle(CommandOf(respObject), ArgsOf(respObject), S, H, t, ord)
    IN Done(h.res, h.SETs, h.HSETs,
            FileWrite(f, p, SubSeq(Serialize(respObject), 1, n)).bytes, p + n)

FailedAppend(r, n) ==
    /\ phase = "serving"
    /\ IsLogged(r)
    /\ writes < MaxLog
    /\ LET d == processCommandOnError(r, SETs, HSETs, file, pos, now, NoOrder, n)
       IN /\ phase' = IF d.res = Panic THEN "crashed" ELSE "serving"
          /\ SETs' = d.SETs
          /\ HSETs' = d.HSETs
          /\ file' = d.file
          /\ pos' = d.pos
          /\ last' = [req |-> r, res |-> d.res]
          /\ hist' = Record(hist, r, d.res, now)
    /\ writes' = writes + 1
    /\ UNCHANGED <<now, conns, bootErr, aof>>

FailRequest == RequestOf(FailRequests)
FailingRequest ==
    \E r \in FailRequests : \E n \in Partial(Len(Serialize(r))) : FailedAppend(r, n)

NextFail == FailRequest \/ FailingRequest
SpecFail == Init /\ [][NextFail]_vars

\* --------------------------------------------------------- lazy expiration
\* get on one connection while set runs on another: get's SETs.Load and its
\* SETs.Delete are two sync.Map calls, and other goroutines run between them.
ExpireRequests == {
    Cmd(<<sSET, ka, v1, sPX, v1>>),
    Cmd(<<sSET, ka, v2>>),
    Cmd(<<sGET, ka>>),
    Cmd(<<sGET, kb>>) }

EReceive(c) ==
    /\ pc[c] = "idle"
    /\ \E r \in ExpireRequests :
        /\ IsLogged(r) => writes + Pending < MaxLog
        /\ creq' = [creq EXCEPT ![c] = r]
        /\ pc' = [pc EXCEPT ![c] = IF IsLogged(r) THEN "log" ELSE "exec"]
    /\ UNCHANGED <<engine, now, writes, last, hist, cres, sys, wire>>

\* handler(args): get up to the test of the entry it loaded, which sends it
\* on to SETs.Delete when the entry has expired; set in one step.
EExec(c) ==
    /\ pc[c] = "exec"
    /\ LET cmd == CommandOf(creq[c])
           args == ArgsOf(creq[c])
       IN IF /\ cmd = sGET
             /\ Has(SETs, args[1].Value)
             /\ Expired(SETs[args[1].Value], now)
          THEN /\ pc' = [pc EXCEPT ![c] = "evict"]
               /\ UNCHANGED <<SETs, HSETs, cres>>
          ELSE LET h == Handle(cmd, args, SETs, HSETs, now, NoOrder)
               IN /\ SETs' = h.SETs
                  /\ HSETs' = h.HSETs
                  /\ cres' = [cres EXCEPT ![c] = h.res]
                  /\ pc' = [pc EXCEPT ![c] = "idle"]
    /\ UNCHANGED <<file, pos, now, writes, last, hist, creq, sys, wire>>

\* get's SETs.Delete(key), and its null reply.
EEvict(c) ==
    /\ pc[c] = "evict"
    /\ SETs' = Delete(SETs, ArgsOf(creq[c])[1].Value)
    /\ cres' = [cres EXCEPT ![c] = NullObj]
    /\ pc' = [pc EXCEPT ![c] = "idle"]
    /\ UNCHANGED <<HSETs, file, pos, now, writes, last, hist, creq, sys, wire>>

ReceiveTimed == \E c \in Conns : EReceive(c)
ExecTimed == \E c \in Conns : EExec(c)
Evict == \E c \in Conns : EEvict(c)

NextExpire == ReceiveTimed \/ Log \/ ExecTimed \/ Evict \/ Tick
SpecExpire == Init /\ [][NextExpire]_vars

\* ----------------------------------------------------------- frame shapes
\* Decoded frames of every shape: well-formed commands, frames that are not
\* arrays, and arrays whose name or arguments are not strings.
ShapeRequests == {
    Cmd(<<sSET, ka, v1>>),
    Cmd(<<sSET, ka, v2>>),
    Cmd(<<sHSET, kh, ff, v1>>),
    Cmd(<<sGET, ka>>),
    Cmd(<<sHGET, kh, ff>>),
    Bulk(sPING),
    Obj("Integer", 1),
    Cmd(<<>>),
    Arr(<<Obj("Integer", 1)>>),
    Arr(<<Arr(<<>>)>>),
    Arr(<<NullBulk>>),
    Arr(<<Bulk(sSET), Arr(<<>>), Bulk(v1)>>),
    Arr(<<Bulk(sGET), Obj("Integer", 1)>>),
    Arr(<<Bulk(sHSET), Bulk(kh), NullBulk, Bulk(v1)>>) }

ShapeRequest == RequestOf(ShapeRequests)
NextShape == ShapeRequest \/ Restart
SpecShape == Init /\ [][NextShape]_vars

\* ----------------------------------------------------------------- recovery
\* The contents redis.aof may have when the server starts: written by earlier
\* runs, cut short, or damaged.
LogSetA1 == Serialize(Cmd(<<sSET, ka, v1>>))
LogSetA2 == Serialize(Cmd(<<sSET, ka, v2>>))
LogHSet == Serialize(Cmd(<<sHSET, kh, ff, v1>>))
\* Each with the number of Aof.Write calls that made it.
StartupLogs == {
    [bytes |-> <<>>, writes |-> 0],
    [bytes |-> LogSetA1 \o LogSetA2, writes |-> 2],
    [bytes |-> LogSetA2 \o LogHSet, writes |-> 2],
    [bytes |-> LogSetA1 \o <<"x", "y">>, writes |-> 1],
    [bytes |-> SubSeq(LogSetA1, 1, Len(LogSetA1) - 3), writes |-> 1] }

RecoverRequests == { Cmd(<<sSET, ka, v3>>), Cmd(<<sHSET, kh, fg, v2>>), Cmd(<<sGET, ka>>) }

\* The machine comes up with some log on disk and no server process.
InitRecover ==
    /\ SETs = EmptyMap
    /\ HSETs = EmptyMap
    /\ \E l \in StartupLogs : file = l.bytes /\ writes = l.writes
    /\ pos = 0
    /\ now = 0
    /\ last = NoRequest
    /\ hist = NoHistory
    /\ pc = [c \in Conns |-> "idle"]
    /\ creq = [c \in Conns |-> ZeroObj]
    /\ cres = [c \in Conns |-> ZeroObj]
    /\ phase = "down"
    /\ bootErr = "nil"
    /\ aof = NewAof
    /\ wire = NoWire

\* The process starts: empty key-spaces, and NewAof opens the file at offset 0.
Open ==
    /\ phase \in {"down", "crashed"}
    /\ phase' = "opened"
    /\ SETs' = EmptyMap
    /\ HSETs' = EmptyMap
    /\ pos' = 0
    /\ aof' = NewAof
    /\ last' = NoRequest
    /\ hist' = NoHistory
    /\ bootErr' = "nil"
    /\ UNCHANGED <<file, now, writes, conns>>

\* main calls rebuildCacheFromAOF and goes on to its accept loop, whatever
\* Aof.Read returned.
Rebuild ==
    /\ phase = "opened"
    /\ LET rebuilt == rebuildCacheFromAOF(file, now)
       IN /\ phase' = IF rebuilt.panic THEN "crashed" ELSE "serving"
          /\ SETs' = rebuilt.SETs
          /\ HSETs' = rebuilt.HSETs
    /\ pos' \in OffsetsAfterRead(file)
    /\ bootErr' = AofRead(file).err
    /\ hist' = Replayed(AofRead(file).values, NoHistory, now)
    /\ UNCHANGED <<file, now, writes, last, conns, aof>>

\* The process is stopped.
Stop ==
    /\ phase = "serving"
    /\ phase' = "down"
    /\ UNCHANGED <<engine, now, writes, last, hist, conns, bootErr, aof>>

RecoverRequest == RequestOf(RecoverRequests)
NextRecover == Open \/ Rebuild \/ RecoverRequest \/ Stop
SpecRecover == InitRecover /\ [][NextRecover]_vars

\* ------------------------------------------------------------- round trips
\* Values to send through resp.go: strings, errors, integers, bulk strings,
\* and arrays of them, nested once.
VString(t) == Value("string", t, 0, <<>>, <<>>)
VError(t) == Value("error", t, 0, <<>>, <<>>)
VInteger(n) == Value("integer", <<>>, n, <<>>, <<>>)
VBulk(t) == Value("bulk", <<>>, 0, t, <<>>)
VArray(elems) == Value("array", <<>>, 0, <<>>, elems)
Texts == {<<>>, <<"a">>, <<"O", "K">>, <<"a", "\r", "\n", "b">>}
Leaves ==
    {VString(t) : t \in {<<"O", "K">>, <<>>}} \cup {VError(<<"E", "R", "R">>)}
        \cup {VInteger(n) : n \in {0, 7, -12}} \cup {VBulk(t) : t \in Texts}
Flat == {VArray(<<>>)} \cup {VArray(<<x>>) : x \in Leaves}
            \cup {VArray(<<x, y>>) : x \in {VBulk(<<"a">>), VInteger(7)}, y \in Leaves}
CodecValues == Leaves \cup Flat \cup {VArray(<<x, VBulk(<<"a">>)>>) : x \in Flat}

InitCodec ==
    /\ SETs = EmptyMap
    /\ HSETs = EmptyMap
    /\ file = <<>>
    /\ pos = 0
    /\ now = 0
    /\ writes = 0
    /\ last = NoRequest
    /\ hist = NoHistory
    /\ pc = [c \in Conns |-> "idle"]
    /\ creq = [c \in Conns |-> ZeroObj]
    /\ cres = [c \in Conns |-> ZeroObj]
    /\ phase = "serving"
    /\ bootErr = "nil"
    /\ aof = NewAof
    /\ \E v \in CodecValues : wire = [NoWire EXCEPT !.stage = "value", !.v = v]

\* Writer.Write: v.Marshal() goes onto the wire.
Encode ==
    /\ wire.stage = "value"
    /\ wire' = [wire EXCEPT !.stage = "bytes", !.bytes = Marshal(wire.v)]
    /\ UNCHANGED <<engine, now, writes, last, hist, pc, creq, cres, sys>>

\* The Value that Resp.Read makes of one decoded result r.
Delivered(w, r) == [w EXCEPT !.stage = "read", !.got = r.v, !.err = r.err]
\* Resp.Read on the bytes of the wire.
Decode ==
    /\ wire.stage = "bytes"
    /\ wire' = Delivered(wire, Read(wire.bytes, 1))
    /\ UNCHANGED <<engine, now, writes, last, hist, pc, creq, cres, sys>>

NextCodec == Encode \/ Decode
SpecCodec == InitCodec /\ [][NextCodec]_vars

\* ------------------------------------------------------------ byte streams
\* Byte streams for Resp.Read: the frames of a few values, every stream that
\* ends inside one of these frames, and frames with other type bytes.
FrameValues == {
    VBulk(<<"a", "b">>),
    VBulk(<<>>),
    VArray(<<VBulk(<<"a">>), VBulk(<<"b">>)>>),
    VArray(<<VArray(<<VBulk(<<"a">>)>>)>>) }
TruncatedFrames ==
    UNION {{SubSeq(Marshal(v), 1, n) : n \in 1..(Len(Marshal(v)) - 1)} : v \in FrameValues}
TypeBytes == {"+", "-", ":", "$", "*"}
OtherFrames == {<<m>> \o t \o CRLF : m \in {"x", "!", "+", ":"}, t \in {<<>>, <<"1">>, <<"O", "K">>}}
Streams == {Marshal(v) : v \in FrameValues} \cup TruncatedFrames \cup OtherFrames

InitStream ==
    /\ SETs = EmptyMap
    /\ HSETs = EmptyMap
    /\ file = <<>>
    /\ pos = 0
    /\ now = 0
    /\ writes = 0
    /\ last = NoRequest
    /\ hist = NoHistory
    /\ pc = [c \in Conns |-> "idle"]
    /\ creq = [c \in Conns |-> ZeroObj]
    /\ cres = [c \in Conns |-> ZeroObj]
    /\ phase = "serving"
    /\ bootErr = "nil"
    /\ aof = NewAof
    /\ \E b \in Streams : wire = [NoWire EXCEPT !.stage = "bytes", !.bytes = b]

SpecStream == InitStream /\ [][Decode]_vars

\* ---------------------------------------------------------------- properties
\* What GET k and HGET h f return on engine (S, H) at time t.
GetResult(S, k, t) == get(<<Bulk(k)>>, S, EmptyMap, t).res
HGetResult(H, h, f) == hget(<<Bulk(h), Bulk(f)>>, EmptyMap, H).res

\* The records of the log, and what the handler of a record returns.
LogRecords == AofRead(file).values
Answer(frame) ==
    Handle(CommandOf(frame), ArgsOf(frame), EmptyMap, EmptyMap, now, NoOrder).res

\* C1: a command rejected with an Error is never appended to the log: every
\* record of the log is a SET or HSET frame whose handler returned OK.
C1_RejectedNeverLogged ==
    \A i \in 1..Len(LogRecords) :
        IsLogged(LogRecords[i]) /\ Answer(LogRecords[i]) = OK

\* A SET frame of the four-argument form, the one that asks for an expiration.
AsksExpiration(frame) == CommandOf(frame) = sSET /\ Len(ArgsOf(frame)) = 4
NoExpirationLogged ==
    LET records == LogRecords
    IN \A i \in 1..Len(records) : ~AsksExpiration(records[i])

\* The engine a restart at the current time would rebuild from the log.
Rebuilt == rebuildCacheFromAOF(file, now)

\* C2: durability by replay.  When the requests so far were SETs without
\* expiration and HSETs (and reads), replaying the log from offset 0 into a
\* fresh engine gives an engine on which GET k and HGET h f return, for every
\* key and field, what they return on the running engine.
C2_ReplayEquivalent ==
    NoExpirationLogged =>
        LET fresh == Rebuilt
        IN /\ \A k \in Keys : GetResult(fresh.SETs, k, now) = GetResult(SETs, k, now)
           /\ \A h \in Keys : \A f \in Fields :
                  HGetResult(fresh.HSETs, h, f) = HGetResult(HSETs, h, f)

\* C2's case: a restarted server whose log held a SET and an HSET, neither
\* asking for an expiration, serves both from the rebuilt engine.
C2_Witness ==
    /\ last = NoRequest
    /\ writes = 2
    /\ NoExpirationLogged
    /\ GetResult(SETs, ka, now) = Bulk(v1)
    /\ HGetResult(HSETs, ka, ff) = Bulk(v1)

\* C3: once concurrent requests on one key (or one hash field) have all
\* completed, the value held in memory equals the value obtained by replaying
\* the log: the appends and the handlers took place in the same order.
C3_MemoryMatchesLog ==
    (\A c \in Conns : pc[c] = "idle") =>
        LET fresh == Rebuilt
        IN /\ \A k \in Keys : GetResult(fresh.SETs, k, now) = GetResult(SETs, k, now)
           /\ \A h \in Keys : \A f \in Fields :
                  HGetResult(fresh.HSETs, h, f) = HGetResult(HSETs, h, f)

\* C4: replay preserves expiration.  A key whose latest SET asked for an
\* expiration instant that has passed before the restart is not present after
\* the restart: GET k on the rebuilt engine returns Null.
C4_ReplayKeepsExpiration ==
    [][Restart =>
          \A k \in Keys :
              (/\ Has(hist.set, k)
               /\ hist.set[k].ExpiresAt # ZeroTime
               /\ hist.set[k].ExpiresAt < now
               /\ GetResult(SETs, k, now) = NullObj)
                  => GetResult(SETs', k, now') = NullObj]_vars

\* The request is GET k; the request is KEYS with the exact pattern k.
IsGetOf(r, k) == IsGet(r) /\ ArgsOf(r)[1].Value = k
IsKeysOf(r, k) ==
    /\ IsCommandFrame(r)
    /\ CommandOf(r) = sKEYS
    /\ Len(ArgsOf(r)) = 1
    /\ ArgsOf(r)[1].Value = k

\* The latest SET k asked for an expiration instant.
Expiring(k) == Has(hist.set, k) /\ hist.set[k].ExpiresAt # ZeroTime
\* The latest GET k since that SET was issued at or after time t.
GotSince(k, t) == Has(hist.got, k) /\ hist.got[k] >= t

C6_SetArity ==
    [][(/\ writes' = writes + 1
        /\ CommandOf(last'.req) = sSET
        /\ Len(ArgsOf(last'.req)) \notin {2, 4})
           => /\ last'.res = ErrObj(ErrWrongArgCount(<<"s", "e", "t">>))
              /\ SETs' = SETs]_vars

\* C7: GET k returns Null when no SET k has succeeded, and the value of the
\* latest successful SET k when that SET asked for no expiration or its
\* instant has not passed; right after SET k v, GET k returns v.
C7_GetLatestSet ==
    \A k \in Keys :
        /\ IsGetOf(last.req, k) =>
              /\ ~Has(hist.set, k) => last.res = NullObj
              /\ (Has(hist.set, k) /\ ~Expiring(k))
                     => last.res = Bulk(hist.set[k].Data)
              /\ (Expiring(k) /\ hist.got[k] <= hist.set[k].ExpiresAt)
                     => last.res = Bulk(hist.set[k].Data)
        /\ \A v \in {v1, v2, v3} :
              (last.req = Cmd(<<sSET, k, v>>) /\ last.res = OK)
                  => GetResult(SETs, k, now) = Bulk(v)

\* C7's case: two SETs of one key, the later one with an expiration, and a
\* GET before its instant has passed.
C7_Witness ==
    /\ IsGetOf(last.req, ka)
    /\ writes = 2
    /\ Expiring(ka)
    /\ hist.got[ka] = hist.set[ka].ExpiresAt
    /\ last.res = Bulk(v2)

\* What the history says HGET h f returns.
LatestHSet(h, f) ==
    IF Has(hist.hset, <<h, f>>) THEN Bulk(hist.hset[<<h, f>>]) ELSE NullObj

\* C8: HGET h f returns the value of the latest HSET h f, Null when there was
\* none; so an HSET on (h, f) changes no other field and no other hash.
C8_HGetLatestHSet ==
    /\ \A h \in Keys : \A f \in Fields : HGetResult(HSETs, h, f) = LatestHSet(h, f)
    /\ \A h \in Keys : \A f \in Fields :
           last.req = Cmd(<<sHGET, h, f>>) => last.res = LatestHSet(h, f)

\* C8's case: two fields of one hash were set, and HGET reads one of them.
C8_Witness ==
    /\ last.req = Cmd(<<sHGET, kh, fg>>)
    /\ last.res = Bulk(v1)
    /\ HGetResult(HSETs, kh, ff) = Bulk(v2)
    /\ HGetResult(HSETs, ka, ff) = NullObj

\* The names of both key-spaces, and the names a KEYS result lists.
AllNames == (DOMAIN SETs) \cup (DOMAIN HSETs)
Listed(res) == {res.Value[i].Value : i \in 1..Len(res.Value)}

\* C9: KEYS with a pattern ending in '*' returns exactly the string keys and
\* hash names that start with the pattern less its '*'; with any other pattern
\* it returns at most one element, the pattern, and only if that is a name.
C9_KeysPattern ==
    (IsCommandFrame(last.req) /\ CommandOf(last.req) = sKEYS /\ Len(ArgsOf(last.req)) = 1)
        => LET pattern == ArgsOf(last.req)[1].Value
           IN /\ last.res.Type = "Array"
              /\ IF HasSuffix(pattern, star)
                 THEN Listed(last.res) =
                          {n \in AllNames : HasPrefix(n, TrimSuffix(pattern, star))}
                 ELSE /\ Len(last.res.Value) <= 1
                      /\ Listed(last.res) \subseteq {pattern}
                      /\ Listed(last.res) # {} => pattern \in AllNames

\* C9's case: a prefix that a string key and a hash name share.
C9_Witness ==
    /\ last.req = Cmd(<<sKEYS, ka \o star>>)
    /\ Listed(last.res) = {ka, kab}
    /\ Has(SETs, kab)
    /\ Has(HSETs, ka)

\* The frame r with its command name in upper case.
UpperCased(r) == Arr(<<Bulk(ToUpper(r.Value[1].Value))>> \o Tail(r.Value))
UnknownCommand(r) == IsCommandFrame(r) /\ ToUpper(r.Value[1].Value) \notin Handlers
\* What processCommand would do with r in the current state.
Outcome(r) == processCommand(r, SETs, HSETs, file, pos, now, NoOrder)
Appended(r) == IF IsLogged(UpperCased(r)) THEN Serialize(r) ELSE <<>>

\* An unknown command is answered with an Error that names it.
NamedInError ==
    UnknownCommand(last.req) =>
        last.res = ErrObj(<<"Invalid command: ">> \o ToUpper(last.req.Value[1].Value))
\* A name in any case is dispatched as its upper-case form is, and logged in
\* the same cases: the frame itself is what is appended.
CaseInsensitive ==
    \A r \in DispatchRequests :
        IsCommandFrame(r) =>
            LET asSent == Outcome(r)
                inUpper == Outcome(UpperCased(r))
            IN /\ asSent.res = inUpper.res
               /\ asSent.SETs = inUpper.SETs
               /\ asSent.HSETs = inUpper.HSETs
               /\ asSent.file = file \o Appended(r)
               /\ inUpper.file = file \o Appended(UpperCased(r))

\* C10: a request whose upper-cased name has no handler returns an Error
\* naming the command and changes neither key-space nor the log; names are
\* matched case-insensitively.
C10_UnknownAndCase ==
    /\ [](NamedInError /\ CaseInsensitive)
    /\ [][UnknownCommand(last'.req)
             => (SETs' = SETs /\ HSETs' = HSETs /\ file' = file)]_vars

\* C10's case: an unknown lower-case name, with a key stored and a log written.
C10_Witness ==
    /\ last.req = Cmd(<<sFOO, ka, v1>>)
    /\ last.res.Type = "Error"
    /\ Has(SETs, ka)
    /\ file # <<>>

\* A frame a client may send as a command: a non-empty array of bulk strings.
WellShaped(r) ==
    /\ r.Type = "Array"
    /\ Len(r.Value) > 0
    /\ \A i \in 1..Len(r.Value) : r.Value[i].Type = "BulkString"

\* C11: processCommand returns a result for every decoded frame and the
\* process goes on: a frame that is not a non-empty array of bulk strings is
\* answered with an Error value.
C11_AlwaysResult ==
    /\ phase # "crashed"
    /\ (last # NoRequest /\ ~WellShaped(last.req)) => last.res.Type = "Error"

\* C12: a decode failure other than clean end-of-file during replay is fatal
\* to startup: the server does not go on to serve requests.
C12_DecodeErrorFatal ==
    bootErr # "nil" => (phase # "serving" /\ last = NoRequest)

\* C13: codec round trip: reading the bytes that marshalling a value produced
\* yields that value, without an error.
C13_RoundTrip ==
    wire.stage = "read" => (wire.err = "nil" /\ wire.got = wire.v)

\* C14: lazy expiration is atomic per key: the eviction a GET performs removes
\* only an entry that has expired, never the entry a concurrent SET has
\* written since the GET loaded the expired one.
C14_EvictsOnlyExpired ==
    [][\A c \in Conns :
          (pc[c] = "evict" /\ pc'[c] = "idle" /\ Has(SETs, ArgsOf(creq[c])[1].Value))
              => Expired(SETs[ArgsOf(creq[c])[1].Value], now)]_vars

\* The bytes a are the first bytes of b.
IsPrefix(a, b) == Len(a) <= Len(b) /\ SubSeq(b, 1, Len(a)) = a

\* C15: the log is append-only in every state of the file handle: the content
\* of the file before an Aof.Write is a prefix of its content after it, also
\* when the Write follows a Read that stopped early at a decode error.
C15_AppendOnly ==
    [][writes' = writes + 1 => IsPrefix(file, file')]_vars

\* The bytes of the frames of the objects in order, one after the other.
RECURSIVE Frames(_)
Frames(order) == IF order = <<>> THEN <<>>
                 ELSE Serialize(Head(order)) \o Frames(Tail(order))
Writing == {c \in Conns : pc[c] = "write"}
AllBut(order) == SubSeq(order, 1, Len(order) - 1)

\* C16: concurrent appends never interleave: the log is the concatenation of
\* the complete frames of the appended commands, in the order in which their
\* appends took the log's lock, followed while an append is writing by the
\* bytes of its frame written so far.
C16_NoInterleaving ==
    IF Writing = {}
    THEN file = Frames(aof.order)
    ELSE file = Frames(AllBut(aof.order))
                    \o SubSeq(Serialize(aof.order[Len(aof.order)]), 1,
                              aof.sent[CHOOSE c \in Writing : TRUE])
C16_Witness ==
    /\ writes = 2
    /\ \A c \in Conns : pc[c] = "idle" /\ aof.sent[c] > 0
    /\ aof.order[1] # aof.order[2]
    /\ file = Frames(aof.order)

\* The bytes a are the last bytes of b.
IsSuffix(a, b) == Len(a) <= Len(b) /\ SubSeq(b, Len(b) - Len(a) + 1, Len(b)) = a

\* The log ends with the frame of request r.
LoggedLast(r) == IsLogged(r) /\ IsSuffix(Serialize(r), file)

\* C17: replay has no effect on the log and produces no client output, and
\* applies every logged SET/HSET in file order: a replay that completes leaves
\* the bytes of the log and the replies of the connections as they were, and
\* the SET or HSET that the log ends with is what GET or HGET then returns.
C17_ReplayAppliesLog ==
    [][(phase = "opened" /\ phase' = "serving") =>
          /\ file' = file
          /\ cres' = cres
          /\ last' = last
          /\ \A r \in RecoverRequests :
                LoggedLast(r) =>
                    IF CommandOf(r) = sSET
                    THEN GetResult(SETs', ArgsOf(r)[1].Value, now) = Bulk(ArgsOf(r)[2].Value)
                    ELSE HGetResult(HSETs', ArgsOf(r)[1].Value, ArgsOf(r)[2].Value)
                             = Bulk(ArgsOf(r)[3].Value)]_vars

\* C18: Close tears down the file handle and the flush task on every path:
\* once Close has returned, with success or with the error of its final flush,
\* the file handle is released and periodicSync is not on its way to, or in, a
\* flush of the file.
C18_CloseTearsDown ==
    aof.closer \in {"done", "failed"} =>
        (aof.handle = "closed" /\ aof.flusher \notin {"lock", "sync"})

\* Connection c has completed an HSET, and nothing since.
DidHSet(c) == pc[c] = "idle" /\ IsLogged(creq[c]) /\ CommandOf(creq[c]) = sHSET

\* C19: no lost creation: when connections set different fields of a hash
\* that does not exist yet, each field is there once its HSET has completed:
\* HGET h f returns the value of the completed HSET h f.
C19_NoLostCreation ==
    \A c \in Conns :
        DidHSet(c) =>
            HGetResult(HSETs, ArgsOf(creq[c])[1].Value, ArgsOf(creq[c])[2].Value)
                = Bulk(ArgsOf(creq[c])[3].Value)
C19_Witness ==
    /\ writes = 2
    /\ \A c \in Conns : DidHSet(c) /\ ArgsOf(creq[c])[1].Value = kh
    /\ ArgsOf(creq[1])[2].Value # ArgsOf(creq[2])[2].Value
    /\ HGetResult(HSETs, kh, ff) = Bulk(v1)
    /\ HGetResult(HSETs, kh, fg) = Bulk(v2)

\* A SET of a key to a value, or an HSET of a field to a value.
ValidWrite(r) ==
    /\ IsLogged(r)
    /\ \A i \in 1..Len(ArgsOf(r)) : IsString(ArgsOf(r)[i])
    /\ \/ CommandOf(r) = sSET /\ Len(ArgsOf(r)) = 2
       \/ CommandOf(r) = sHSET /\ Len(ArgsOf(r)) = 3
\* The engine holds what r wrote.
Held(r, S, H, t) ==
    IF CommandOf(r) = sSET
    THEN GetResult(S, ArgsOf(r)[1].Value, t) = Bulk(ArgsOf(r)[2].Value)
    ELSE HGetResult(H, ArgsOf(r)[1].Value, ArgsOf(r)[2].Value) = Bulk(ArgsOf(r)[3].Value)

\* C20: a failed log append does not prevent the in-memory mutation: when
\* Aof.Write was called for a valid SET or HSET and the frame did not get into
\* the file, the client is still answered OK and the key-space holds the value.
C20_FailedAppendStillApplied ==
    [][(/\ writes' = writes + 1
        /\ file' # AofWrite(file, pos, last'.req).bytes
        /\ ValidWrite(last'.req))
          => (last'.res = OK /\ Held(last'.req, SETs', HSETs', now))]_vars
C20_Witness ==
    /\ writes = 1
    /\ file = <<>>
    /\ last = [req |-> Cmd(<<sSET, ka, v1>>), res |-> OK]
    /\ GetResult(SETs, ka, now) = Bulk(v1)

\* C21: end-of-stream in the middle of a frame is never swallowed: reading a
\* stream that ends inside a frame returns the end-of-stream error, never a
\* value with no error.
C21_TruncatedIsEOF ==
    (wire.stage = "read" /\ wire.bytes \in TruncatedFrames) => wire.err = "EOF"

\* C22: reading a frame whose first byte is not one of the type bytes
\* '+', '-', ':', '$', '*' returns an error, never a value with a nil error.
C22_UnknownMarkerFails ==
    (wire.stage = "read" /\ wire.bytes # <<>> /\ wire.bytes[1] \notin TypeBytes)
        => wire.err # "nil"

====
